---- MODULE Spec2Model ----
(***************************************************************************)
(* A model of docbuild's metadata run (cli/cmd_metadata/metaprocess.py,    *)
(* utils/git.py, utils/contextmgr.py) and of the PID file lock             *)
(* (utils/pidlock.py).                                                     *)
(*                                                                         *)
(* Spec      the metadata run: process() gathers one process_doctype()     *)
(*           per doctype; each updates the repository mirrors, then runs   *)
(*           one process_deliverable() task per deliverable on the         *)
(*           asyncio event loop.  An action is the code a coroutine runs   *)
(*           between two suspension points; the git and build              *)
(*           subprocesses and the file system (mkdir, mkdtemp, rmtree,     *)
(*           edit_json) choose their outcome when the action runs.         *)
(* SpecShutdown  the same run under asyncio.run, which cancels the tasks   *)
(*           still pending once process() has ended.                       *)
(* SpecLock  several processes calling PidFileLock.acquire()/release() on  *)
(*           one lock file; an action is one system call and the code that *)
(*           follows it up to the next system call.                        *)
(* SpecLockFair  the lock with processes that each enter it once and, once *)
(*           inside acquire(), keep taking steps.                          *)
(* SpecAgg   calls of store_productdocset_json on one artifact cache; an   *)
(*           action is one turn of its loop over the (product, docset)     *)
(*           pairs.                                                        *)
(* SpecNorm  the legacy text normalization of descriptions and category    *)
(*           titles, applied repeatedly to a text.                         *)
(* SpecCheck process_check_files of the check command                      *)
(*           (cli/cmd_check/process.py); an action is one turn of its loop *)
(*           over the (repository, branch) groups.                         *)
(* SpecVal   the validate run (cli/cmd_validate/process.py): process()     *)
(*           gathers one process_file() per file, then validates the       *)
(*           stitch of the files that passed; an action is the code of a   *)
(*           coroutine between two awaits.                                 *)
(* SpecPatch the patch process_deliverable applies to the first document   *)
(*           of the JSON artifact after a successful build.                *)
(* SpecLife  the membership test of LifecycleFlag (models/lifecycle.py) on *)
(*           a lifecycle string or flag.                                   *)
(***************************************************************************)
EXTENDS Integers, Sequences, FiniteSets, TLC

\* ---------------------------------------------------------------- bounds
NumDeliverables == 2
NumProcs == 2
NumArtifacts == 2
MaxCalls == 3
MaxLen == 3
MaxApply == 2
NumEntries == 2
NumFiles == 2
MaxTokens == 3

Deliverables == 1..NumDeliverables
Doctypes == {"dt1", "dt2"}
Urls == {"urlA", "urlB"}
Procs == 1..NumProcs
Artifacts == 1..NumArtifacts
Entries == 1..NumEntries

VARIABLES
    \* ---- inputs of the metadata run
    exitfirst,          \* process(..., exitfirst=)
    skip_repo_update,   \* process(..., skip_repo_update=)
    dtOf,               \* the doctype that selects each deliverable
    urlOf,              \* deliverable.git.url
    \* ---- process()
    ppc,                \* position of process()
    presult,            \* "none", "0", "1" (return value) or the exception raised
    manifest_written,   \* store_productdocset_json has run
    \* ---- process_doctype(), one per doctype
    dpc,                \* position of each process_doctype()
    dexc,               \* exception a process_doctype() ended with
    failed_deliverables,\* the list each process_doctype() returns
    completed,          \* as_completed queue: tasks of a batch in the order they finished
    \* ---- update_repositories() / ManagedGitRepo.clone_bare()
    cpc,                \* position/result of the clone_bare() of a repo slot
    mirror,             \* state of bare_repo_path per remote URL
    clone_attempts,     \* git clone --bare commands started, per batch and URL
    \* ---- process_deliverable(), one task per deliverable
    tpc,                \* position of the task
    tres,               \* outcome of the task
    texc,               \* exception caught in process_deliverable (the logged error)
    cancel_requested,   \* Task.cancel() was called on the task
    workdir,            \* the PersistentOnErrorTemporaryDirectory of the task
    returncode,         \* daps_process.returncode as the task read it: <<>> until then
    consumed,           \* results the as_completed loop of a batch has taken
    \* ---- PidFileLock
    lpc,                \* position of each process in acquire()/release()
    lock_acquired,      \* PidFileLock._lock_acquired
    lock_file,          \* the file at lock_path
    lock_error,         \* acquire() raised RuntimeError
    lock_call,          \* the last call of each process: "acquire" (and whether
                        \* it found a stale lock file) or "release"
    \* ---- store_productdocset_json()
    art_pair,           \* the (product, docset) whose names are in the path of a DC-* entry
    art_kind,           \* what the DC-* entry is: a valid document, empty (falsy)
                        \* JSON, no JSON, JSON that fails Document validation, a directory
    xml_text,           \* description and category title of the product in the stitched tree
    agg_pc,             \* position of store_productdocset_json
    agg_idx,            \* position of its loop in the (doctype, docset) stream
    agg_hist,           \* how each call so far ended: "returned" or "raised"
    rank,               \* the rank counter of class Category
    manifest_file,      \* content of <meta_cache_dir>/<product>/<docset>.json
    manifest_prev,      \* the manifest files as they were when the current call began
    \* ---- the legacy text normalization applied to a text
    norm_kind,          \* "description" or "title"
    norm_text,          \* the text
    norm_prev,          \* the text before the last application
    norm_runs,          \* number of applications so far
    \* ---- process_check_files()
    xml_files,          \* config_dir holds *.xml files
    chk_deliverables,   \* the deliverable elements of the stitched tree, in document order
    doctype_filter,     \* process_check_files(..., doctype_filter=): "None" or a doctype
    chk_pc,             \* position of process_check_files
    chk_groups,         \* the dict _group_by_repo returned, in insertion order
    chk_idx,            \* position of the loop over the groups
    missing_files,      \* the list process_check_files builds and returns
    chk_log,            \* what was done for each group visited so far
    \* ---- the validate run: process() and process_file() of cmd_validate
    val_config,         \* context.envconfig: "ok", "None", or paths not a dict
    xmlfiles,           \* the files to validate, each with the product id it defines
    val_pc,             \* position of process()
    val_file,           \* per file: position of its process_file() and what it did
    val_stitch,         \* the call of create_stitchfile: made or not, with which files
    val_result,         \* what process() returned
    \* ---- the patch of the JSON artifact at the end of process_deliverable
    pt_format,          \* deliverable.format: the formats requested
    pt_doc,             \* jsonconfig["docs"][0] in the file at outputjson
    pt_old,             \* the document as the build wrote it
    pt_pc,              \* "built" after the build succeeded, then "done"
    pt_result,          \* what process_deliverable returned
    \* ---- LifecycleFlag: the test `other in self`
    lf_self,            \* the flag value the test is made on: the set of its members
    lf_other,           \* the left operand: a string, a LifecycleFlag or something else
    lf_pc,              \* "start", then "done"
    lf_result           \* "True", "False", or "ValueError" when from_str raised

varsRun == <<exitfirst, skip_repo_update, dtOf, urlOf, ppc, presult,
             manifest_written, dpc, dexc, failed_deliverables, completed,
             cpc, mirror, clone_attempts, tpc, tres, texc, cancel_requested,
             workdir, returncode, consumed>>
varsLock == <<lpc, lock_acquired, lock_file, lock_error, lock_call>>
varsAgg == <<art_pair, art_kind, xml_text, agg_pc, agg_idx, agg_hist, rank,
             manifest_file, manifest_prev>>
varsNorm == <<norm_kind, norm_text, norm_prev, norm_runs>>
varsCheck == <<xml_files, chk_deliverables, doctype_filter, chk_pc, chk_groups,
               chk_idx, missing_files, chk_log>>
varsVal == <<val_config, xmlfiles, val_pc, val_file, val_stitch, val_result>>
varsPatch == <<pt_format, pt_doc, pt_old, pt_pc, pt_result>>
varsLife == <<lf_self, lf_other, lf_pc, lf_result>>
vars == <<varsRun, varsLock, varsAgg, varsNorm, varsCheck, varsVal, varsPatch, varsLife>>
\* what the actions of one part leave alone
notRun == <<varsLock, varsAgg, varsNorm, varsCheck, varsVal, varsPatch, varsLife>>
notLock == <<varsRun, varsAgg, varsNorm, varsCheck, varsVal, varsPatch, varsLife>>
notAgg == <<varsRun, varsLock, varsNorm, varsCheck, varsVal, varsPatch, varsLife>>
notNorm == <<varsRun, varsLock, varsAgg, varsCheck, varsVal, varsPatch, varsLife>>
notCheck == <<varsRun, varsLock, varsAgg, varsNorm, varsVal, varsPatch, varsLife>>
notLife == <<varsRun, varsLock, varsAgg, varsNorm, varsCheck, varsVal, varsPatch>>
notPatch == <<varsRun, varsLock, varsAgg, varsNorm, varsCheck, varsVal, varsLife>>
notVal == <<varsRun, varsLock, varsAgg, varsNorm, varsCheck, varsPatch, varsLife>>

\* ------------------------------------------------------------- helpers
\* get_deliverable_from_doctype: the deliverables of a doctype, in tree order
RECURSIVE SeqOfSet(_)
SeqOfSet(S) ==
    IF S = {} THEN <<>>
    ELSE LET m == CHOOSE x \in S : \A y \in S : x <= y
         IN <<m>> \o SeqOfSet(S \ {m})

get_deliverable_from_doctype(b) == SeqOfSet({d \in Deliverables : dtOf[d] = b})

Batch(b) == {d \in Deliverables : dtOf[d] = b}

\* Path.exists() / Path.is_dir() on bare_repo_path
bare_repo_exists_always(u) == TRUE
bare_repo_exists(u) == mirror[u] # "absent"

\* ===================================================== the metadata run
InitRun ==
    /\ exitfirst \in BOOLEAN
    /\ skip_repo_update \in BOOLEAN
    \* deliverables are numbered in tree order, those of dt1 first
    /\ dtOf \in {f \in [Deliverables -> Doctypes] :
                   /\ f[1] = "dt1"
                   /\ \A d, e \in Deliverables :
                        (d < e /\ f[d] = "dt2") => f[e] = "dt2"}
    /\ urlOf \in {f \in [Deliverables -> Urls] : f[1] = "urlA"}
    \* mirrors are kept between runs: none cloned yet, or all there
    /\ mirror \in {[u \in Urls |-> st] : st \in {"absent", "ready"}}
    /\ ppc = "stitch"
    /\ presult = "none"
    /\ manifest_written = FALSE
    /\ dpc = [b \in Doctypes |-> "none"]
    /\ dexc = [b \in Doctypes |-> "none"]
    /\ failed_deliverables = [b \in Doctypes |-> <<>>]
    /\ completed = [b \in Doctypes |-> <<>>]
    /\ consumed = [b \in Doctypes |-> 0]
    /\ cpc = [d \in Deliverables |-> "none"]
    /\ clone_attempts = [b \in Doctypes |-> [u \in Urls |-> 0]]
    /\ tpc = [d \in Deliverables |-> "none"]
    /\ tres = [d \in Deliverables |-> "none"]
    /\ texc = [d \in Deliverables |-> "none"]
    /\ cancel_requested = [d \in Deliverables |-> FALSE]
    /\ workdir = [d \in Deliverables |-> "none"]
    /\ returncode = [d \in Deliverables |-> <<>>]

\* ---- process(): stitch, then gather one process_doctype per doctype
process_stitch_after_gather ==
    /\ ppc = "stitch"
    /\ \E stitch_ok \in BOOLEAN :
         /\ dpc' = [b \in Doctypes |-> "scheduled"]
         /\ IF stitch_ok
            THEN /\ ppc' = "gather"
                 /\ presult' = presult
            ELSE /\ ppc' = "done"
                 /\ presult' = "StitchError"
    /\ UNCHANGED <<exitfirst, skip_repo_update, dtOf, urlOf, manifest_written,
                   dexc, failed_deliverables, completed, cpc, mirror,
                   clone_attempts, tpc, tres, texc, cancel_requested, workdir, consumed>>
    /\ UNCHANGED returncode
    /\ UNCHANGED notRun
process_stitch ==
    /\ ppc = "stitch"
    /\ \E stitch_ok \in BOOLEAN :
         IF stitch_ok
         THEN /\ ppc' = "gather"
              /\ dpc' = [b \in Doctypes |-> "scheduled"]
              /\ presult' = presult
         ELSE /\ ppc' = "done"
              /\ presult' = "StitchError"
              /\ dpc' = dpc
    /\ UNCHANGED <<exitfirst, skip_repo_update, dtOf, urlOf, manifest_written,
                   dexc, failed_deliverables, completed, cpc, mirror,
                   clone_attempts, tpc, tres, texc, cancel_requested, workdir, consumed>>
    /\ UNCHANGED returncode
    /\ UNCHANGED notRun

\* ---- process_doctype(): resolve the deliverables in a worker thread
process_doctype_start(b) ==
    /\ dpc[b] = "scheduled"
    /\ dpc' = [dpc EXCEPT ![b] = "resolving"]
    /\ UNCHANGED <<exitfirst, skip_repo_update, dtOf, urlOf, ppc, presult,
                   manifest_written, dexc, failed_deliverables, completed,
                   cpc, mirror, clone_attempts, tpc, tres, texc,
                   cancel_requested, workdir, consumed>>
    /\ UNCHANGED returncode
    /\ UNCHANGED notRun

\* update_repositories: one repo per element of the set of URLs of the batch;
\* a repo slot is named by the first deliverable of the batch with that URL
unique_urls_list(b) == Batch(b)
unique_urls(b) ==
    {d \in Batch(b) : \A e \in Batch(b) : urlOf[e] = urlOf[d] => d <= e}

\* tasks = [asyncio.create_task(coro) for coro in coroutines]
create_tasks(b) == [d \in Deliverables |-> IF d \in Batch(b) THEN "created" ELSE tpc[d]]

process_doctype_resolved(b) ==
    /\ dpc[b] = "resolving"
    /\ IF skip_repo_update
       THEN /\ dpc' = [dpc EXCEPT ![b] = "waiting"]
            /\ tpc' = create_tasks(b)
            /\ cpc' = cpc
       ELSE /\ dpc' = [dpc EXCEPT ![b] = "updating"]
            /\ cpc' = [d \in Deliverables |->
                         IF d \in unique_urls(b) THEN "scheduled" ELSE cpc[d]]
            /\ tpc' = tpc
    /\ UNCHANGED <<exitfirst, skip_repo_update, dtOf, urlOf, ppc, presult,
                   manifest_written, dexc, failed_deliverables, completed,
                   mirror, clone_attempts, tres, texc, cancel_requested,
                   workdir, consumed>>
    /\ UNCHANGED returncode
    /\ UNCHANGED notRun

\* ---- ManagedGitRepo.clone_bare() of repo slot s
clone_bare_start(s) ==
    /\ cpc[s] = "scheduled"
    /\ IF bare_repo_exists(urlOf[s])
       THEN /\ cpc' = [cpc EXCEPT ![s] = "True"]
            /\ clone_attempts' = clone_attempts
       ELSE /\ cpc' = [cpc EXCEPT ![s] = "git"]
            /\ clone_attempts' =
                 [clone_attempts EXCEPT ![dtOf[s]][urlOf[s]] = @ + 1]
    /\ UNCHANGED <<exitfirst, skip_repo_update, dtOf, urlOf, ppc, presult,
                   manifest_written, dpc, dexc, failed_deliverables, completed,
                   mirror, tpc, tres, texc, cancel_requested, workdir, consumed>>
    /\ UNCHANGED returncode
    /\ UNCHANGED notRun

\* execute_git_command: a git command that fails raises RuntimeError
execute_git_command_error == "RuntimeError"

\* clone_bare: except RuntimeError as e: log.error(...); return False
clone_bare_reraises(exc) == exc
clone_bare_except(exc) == IF exc = "RuntimeError" THEN "False" ELSE exc

\* the git clone --bare subprocess creates the destination directory, or fails
\* (destination already there, or an error before anything is written)
git_clone_begin(s) ==
    /\ cpc[s] = "git"
    /\ \E git_ok \in BOOLEAN :
         IF git_ok /\ mirror[urlOf[s]] = "absent"
         THEN /\ mirror' = [mirror EXCEPT ![urlOf[s]] = "partial"]
              /\ cpc' = [cpc EXCEPT ![s] = "cloning"]
         ELSE /\ mirror' = mirror
              /\ cpc' = [cpc EXCEPT ![s] =
                           clone_bare_except(execute_git_command_error)]
    /\ UNCHANGED <<exitfirst, skip_repo_update, dtOf, urlOf, ppc, presult,
                   manifest_written, dpc, dexc, failed_deliverables, completed,
                   clone_attempts, tpc, tres, texc, cancel_requested, workdir, consumed>>
    /\ UNCHANGED returncode
    /\ UNCHANGED notRun

\* the subprocess ends: the mirror is complete, or git removes what it wrote
\* and execute_git_command raises RuntimeError, which clone_bare turns to False
git_clone_end(s) ==
    /\ cpc[s] = "cloning"
    /\ \E git_ok \in BOOLEAN :
         IF git_ok
         THEN /\ mirror' = [mirror EXCEPT ![urlOf[s]] = "ready"]
              /\ cpc' = [cpc EXCEPT ![s] = "True"]
         ELSE /\ mirror' = [mirror EXCEPT ![urlOf[s]] = "absent"]
              /\ cpc' = [cpc EXCEPT ![s] =
                           clone_bare_except(execute_git_command_error)]
    /\ UNCHANGED <<exitfirst, skip_repo_update, dtOf, urlOf, ppc, presult,
                   manifest_written, dpc, dexc, failed_deliverables, completed,
                   clone_attempts, tpc, tres, texc, cancel_requested, workdir, consumed>>
    /\ UNCHANGED returncode
    /\ UNCHANGED notRun

\* results = await asyncio.gather(*tasks, return_exceptions=True)
update_finished_nowait(b) == TRUE
update_finished(b) == \A s \in unique_urls(b) : cpc[s] \in {"True", "False"}

\* update_repositories returned; process_doctype creates the deliverable tasks
process_doctype_updated(b) ==
    /\ dpc[b] = "updating"
    /\ update_finished(b)
    /\ dpc' = [dpc EXCEPT ![b] = "waiting"]
    /\ tpc' = create_tasks(b)
    /\ UNCHANGED <<exitfirst, skip_repo_update, dtOf, urlOf, ppc, presult,
                   manifest_written, dexc, failed_deliverables, completed,
                   cpc, mirror, clone_attempts, tres, texc, cancel_requested,
                   workdir, consumed>>
    /\ UNCHANGED returncode
    /\ UNCHANGED notRun

\* ---- process_deliverable(), the task of deliverable d
inputs == <<exitfirst, skip_repo_update, dtOf, urlOf>>

\* the task ends with outcome r: a bool it returned or the exception it raised
task_done(d, r) ==
    /\ tpc' = [tpc EXCEPT ![d] = "done"]
    /\ tres' = [tres EXCEPT ![d] = r]
    /\ completed' = IF exitfirst
                    THEN [completed EXCEPT ![dtOf[d]] = Append(@, d)]
                    ELSE completed

\* from the first line to the first suspension: mirror check (return False),
\* outputdir.mkdir (before the try: OSError leaves the coroutine), mkdtemp
\* (inside the try: False), clone_bare (it finds the mirror that the check
\* has just seen and starts no command), start of create_worktree
process_deliverable_begin(d) ==
    /\ tpc[d] = "created"
    /\ \E mkdir_ok \in BOOLEAN, mkdtemp_ok \in BOOLEAN :
         IF cancel_requested[d]
         THEN /\ task_done(d, "CancelledError")
              /\ workdir' = workdir
         ELSE IF ~bare_repo_exists(urlOf[d])
         THEN /\ task_done(d, "False")
              /\ workdir' = workdir
         ELSE IF ~mkdir_ok
         THEN /\ task_done(d, "OSError")
              /\ workdir' = workdir
         ELSE IF ~mkdtemp_ok
         THEN /\ task_done(d, "False")
              /\ workdir' = workdir
         ELSE /\ workdir' = [workdir EXCEPT ![d] = "exists"]
              /\ tpc' = [tpc EXCEPT ![d] = "worktree"]
              /\ UNCHANGED <<tres, completed>>
    /\ UNCHANGED <<inputs, ppc, presult, manifest_written, dpc, dexc,
                   failed_deliverables, cpc, mirror, clone_attempts, texc,
                   cancel_requested, consumed>>
    /\ UNCHANGED returncode
    /\ UNCHANGED notRun

\* git clone --local ended: create_worktree returns or raises
process_deliverable_worktree(d) ==
    /\ tpc[d] = "worktree"
    /\ \E worktree_ok \in BOOLEAN :
         IF cancel_requested[d]
         THEN /\ tpc' = [tpc EXCEPT ![d] = "aexit"]
              /\ texc' = [texc EXCEPT ![d] = "CancelledError"]
         ELSE IF worktree_ok
         THEN /\ tpc' = [tpc EXCEPT ![d] = "build"]
              /\ texc' = texc
         ELSE /\ tpc' = [tpc EXCEPT ![d] = "aexit"]
              /\ texc' = [texc EXCEPT ![d] = "RuntimeError: worktree"]
    /\ UNCHANGED <<inputs, ppc, presult, manifest_written, dpc, dexc,
                   failed_deliverables, completed, cpc, mirror, clone_attempts,
                   tres, cancel_requested, workdir, consumed>>
    /\ UNCHANGED returncode
    /\ UNCHANGED notRun

\* if daps_process.returncode != 0
daps_failed_never(rc) == FALSE
daps_failed(rc) == rc # 0

\* the build subprocess ended: returncode 0 leaves the async-with block,
\* any other raises RuntimeError inside it; a task cancelled while it waits
\* never reads the code
process_deliverable_build(d) ==
    /\ tpc[d] = "build"
    /\ \E rc \in {0, 1} :
         IF cancel_requested[d]
         THEN /\ texc' = [texc EXCEPT ![d] = "CancelledError"]
              /\ returncode' = returncode
         ELSE /\ returncode' = [returncode EXCEPT ![d] = <<rc>>]
              /\ IF daps_failed(rc)
                 THEN texc' = [texc EXCEPT ![d] = "RuntimeError: DAPS"]
                 ELSE texc' = texc
    /\ tpc' = [tpc EXCEPT ![d] = "aexit"]
    /\ UNCHANGED <<inputs, ppc, presult, manifest_written, dpc, dexc,
                   failed_deliverables, completed, cpc, mirror, clone_attempts,
                   tres, cancel_requested, workdir, consumed>>
    /\ UNCHANGED notRun

\* PersistentOnErrorTemporaryDirectory.__exit__: if exc_type is None
exit_removes_always(exc) == TRUE
exit_removes(exc) == exc = "none"

\* __aexit__ ran __exit__ in a thread (rmtree may fail with OSError, which is
\* logged); then the rest of process_deliverable: the exception goes to
\* `except Exception`, or edit_json patches the artifact
process_deliverable_aexit(d) ==
    /\ tpc[d] = "aexit"
    /\ \E rmtree_ok \in BOOLEAN, patch_ok \in BOOLEAN :
         /\ IF exit_removes(texc[d]) /\ rmtree_ok
            THEN workdir' = [workdir EXCEPT ![d] = "deleted"]
            ELSE workdir' = workdir
         /\ IF cancel_requested[d] \/ texc[d] = "CancelledError"
            THEN /\ task_done(d, "CancelledError")
                 /\ texc' = texc
            ELSE IF texc[d] # "none"
            THEN /\ task_done(d, "False")
                 /\ texc' = texc
            ELSE IF patch_ok
            THEN /\ task_done(d, "True")
                 /\ texc' = texc
            ELSE /\ task_done(d, "False")
                 /\ texc' = [texc EXCEPT ![d] = "Exception: edit_json"]
    /\ UNCHANGED <<inputs, ppc, presult, manifest_written, dpc, dexc,
                   failed_deliverables, cpc, mirror, clone_attempts,
                   cancel_requested, consumed>>
    /\ UNCHANGED returncode
    /\ UNCHANGED notRun

\* ---- process_doctype(): waiting for the tasks
IsException(r) == r \in {"OSError", "CancelledError"}

\* bool(result) as `if not success` takes it: an exception object is true
truthy(r) == r # "False"

\* await asyncio.gather(*tasks, return_exceptions=True) resumes when every
\* task of the batch is done
gather_done_nowait(b) == TRUE
gather_done(b) == \A d \in Batch(b) : tpc[d] = "done"

\* collect-all: gather(*tasks, return_exceptions=True), then the failed ones
process_doctype_gather(b) ==
    /\ dpc[b] = "waiting"
    /\ ~exitfirst
    /\ gather_done(b)
    /\ failed_deliverables' =
         [failed_deliverables EXCEPT ![b] =
            SelectSeq(get_deliverable_from_doctype(b),
                      LAMBDA d : ~truthy(tres[d]))]
    /\ dpc' = [dpc EXCEPT ![b] = "returned"]
    /\ UNCHANGED <<inputs, ppc, presult, manifest_written, dexc, completed,
                   cpc, mirror, clone_attempts, tpc, tres, texc,
                   cancel_requested, workdir, consumed>>
    /\ UNCHANGED returncode
    /\ UNCHANGED notRun

\* `success, deliverable = await task`: the value must unpack into two names;
\* process_deliverable returns a bool, which is not iterable
unpacks(r) == r \notin {"True", "False"}

\* fail-fast: one turn of `for task in asyncio.as_completed(tasks)`, or the
\* end of the wait for the cancelled tasks
process_doctype_as_completed(b) ==
    /\ dpc[b] \in {"waiting", "cancelling"}
    /\ exitfirst
    /\ IF dpc[b] = "cancelling"
       THEN /\ \A d \in Batch(b) : tpc[d] = "done"
            /\ dpc' = [dpc EXCEPT ![b] = "returned"]
            /\ UNCHANGED <<dexc, failed_deliverables, consumed,
                           cancel_requested>>
       ELSE IF consumed[b] = Cardinality(Batch(b))
       THEN /\ dpc' = [dpc EXCEPT ![b] = "returned"]
            /\ UNCHANGED <<dexc, failed_deliverables, consumed,
                           cancel_requested>>
       ELSE /\ consumed[b] < Len(completed[b])
            /\ LET t == completed[b][consumed[b] + 1]
                   r == tres[t]
               IN  IF IsException(r)
                   THEN /\ dpc' = [dpc EXCEPT ![b] = "raised"]
                        /\ dexc' = [dexc EXCEPT ![b] = r]
                        /\ UNCHANGED <<failed_deliverables, consumed,
                                       cancel_requested>>
                   ELSE IF ~unpacks(r)
                   THEN /\ dpc' = [dpc EXCEPT ![b] = "raised"]
                        /\ dexc' = [dexc EXCEPT ![b] = "TypeError"]
                        /\ UNCHANGED <<failed_deliverables, consumed,
                                       cancel_requested>>
                   ELSE IF truthy(r)
                   THEN /\ consumed' = [consumed EXCEPT ![b] = @ + 1]
                        /\ UNCHANGED <<dpc, dexc, failed_deliverables,
                                       cancel_requested>>
                   ELSE /\ failed_deliverables' =
                             [failed_deliverables EXCEPT ![b] = Append(@, t)]
                        /\ cancel_requested' =
                             [d \in Deliverables |->
                                IF d \in Batch(b) /\ tpc[d] # "done"
                                THEN TRUE ELSE cancel_requested[d]]
                        /\ dpc' = [dpc EXCEPT ![b] = "cancelling"]
                        /\ UNCHANGED <<dexc, consumed>>
    /\ UNCHANGED <<inputs, ppc, presult, manifest_written, completed, cpc,
                   mirror, clone_attempts, tpc, tres, texc, workdir>>
    /\ UNCHANGED returncode
    /\ UNCHANGED notRun

\* ---- process(): results_per_doctype = await asyncio.gather(*tasks)
\* gather passes on the first exception of a process_doctype
process_gather_raises ==
    /\ ppc = "gather"
    /\ \E b \in Doctypes :
         /\ dpc[b] = "raised"
         /\ presult' = dexc[b]
    /\ ppc' = "done"
    /\ UNCHANGED <<inputs, manifest_written, dpc, dexc, failed_deliverables,
                   completed, cpc, mirror, clone_attempts, tpc, tres, texc,
                   cancel_requested, workdir, consumed>>
    /\ UNCHANGED returncode
    /\ UNCHANGED notRun

\* all process_doctype returned: store_productdocset_json, then the exit code
process_finish ==
    /\ ppc = "gather"
    /\ \A b \in Doctypes : dpc[b] = "returned"
    /\ manifest_written' = TRUE
    /\ presult' = IF \E b \in Doctypes : failed_deliverables[b] # <<>>
                  THEN "1" ELSE "0"
    /\ ppc' = "done"
    /\ UNCHANGED <<inputs, dpc, dexc, failed_deliverables, completed, cpc,
                   mirror, clone_attempts, tpc, tres, texc, cancel_requested,
                   workdir, consumed>>
    /\ UNCHANGED returncode
    /\ UNCHANGED notRun

NextRun ==
    \/ process_stitch
    \/ \E b \in Doctypes : process_doctype_start(b)
    \/ \E b \in Doctypes : process_doctype_resolved(b)
    \/ \E s \in Deliverables : clone_bare_start(s)
    \/ \E s \in Deliverables : git_clone_begin(s)
    \/ \E s \in Deliverables : git_clone_end(s)
    \/ \E b \in Doctypes : process_doctype_updated(b)
    \/ \E d \in Deliverables : process_deliverable_begin(d)
    \/ \E d \in Deliverables : process_deliverable_worktree(d)
    \/ \E d \in Deliverables : process_deliverable_build(d)
    \/ \E d \in Deliverables : process_deliverable_aexit(d)
    \/ \E b \in Doctypes : process_doctype_gather(b)
    \/ \E b \in Doctypes : process_doctype_as_completed(b)
    \/ process_gather_raises
    \/ process_finish

\* ---- asyncio.run(process(...)): when process() has ended while tasks are
\* still pending (it raised), the runner cancels every task that is left
\* before it closes the event loop
asyncio_run_shutdown ==
    /\ ppc = "done"
    /\ \E d \in Deliverables :
         tpc[d] \in {"created", "worktree", "build", "aexit"} /\ ~cancel_requested[d]
    /\ cancel_requested' =
         [d \in Deliverables |->
            IF tpc[d] \in {"created", "worktree", "build", "aexit"}
            THEN TRUE ELSE cancel_requested[d]]
    /\ dpc' = [b \in Doctypes |->
                 IF dpc[b] \in {"returned", "raised"} THEN dpc[b]
                 ELSE "cancelled"]
    /\ UNCHANGED <<inputs, ppc, presult, manifest_written, dexc,
                   failed_deliverables, completed, cpc, mirror, clone_attempts,
                   tpc, tres, texc, workdir, consumed>>
    /\ UNCHANGED returncode
    /\ UNCHANGED notRun

NextShutdown == NextRun \/ asyncio_run_shutdown

\* ============================================== legacy text normalization
\* A text is a sequence of characters.  legacy_tail stands for the paragraph
\* "<p>The default view of this page ...</p>", which holds no ampersand.
Alphabet == {"&", " ", "a", "m", "p", ";", "TAIL"}
Texts == UNION {[1..n -> Alphabet] : n \in 0..MaxLen}
legacy_tail == <<"TAIL">>

\* sub in s
str_contains(s, sub) ==
    \E i \in 1..(Len(s) - Len(sub) + 1) : SubSeq(s, i, i + Len(sub) - 1) = sub

\* s.replace(old, new): the occurrences from left to right, not overlapping
RECURSIVE str_replace(_, _, _)
str_replace(s, old, new) ==
    IF Len(s) < Len(old) THEN s
    ELSE IF SubSeq(s, 1, Len(old)) = old
    THEN new \o str_replace(SubSeq(s, Len(old) + 1, Len(s)), old, new)
    ELSE <<Head(s)>> \o str_replace(Tail(s), old, new)

\* if legacy_tail not in desc.description: desc.description += legacy_tail
\* desc.description = desc.description.replace("& ", "&amp; ")
normalize_description(text) ==
    str_replace(IF str_contains(text, legacy_tail) THEN text
                ELSE text \o legacy_tail,
                <<"&", " ">>, <<"&", "a", "m", "p", ";", " ">>)

\* trans.title = trans.title.replace("&", "&amp;")
normalize_title(text) == str_replace(text, <<"&">>, <<"&", "a", "m", "p", ";">>)

legacy_normalize(kind, text) ==
    IF kind = "description" THEN normalize_description(text)
    ELSE normalize_title(text)

NormIdle ==
    /\ norm_kind = "title"
    /\ norm_text = <<>>
    /\ norm_prev = <<>>
    /\ norm_runs = 0

InitNorm ==
    /\ norm_kind \in {"description", "title"}
    /\ norm_text \in Texts
    /\ norm_prev = <<>>
    /\ norm_runs = 0

\* the normalization is applied to the text
legacy_normalize_apply ==
    /\ norm_runs < MaxApply
    /\ norm_text' = legacy_normalize(norm_kind, norm_text)
    /\ norm_prev' = norm_text
    /\ norm_runs' = norm_runs + 1
    /\ UNCHANGED norm_kind
    /\ UNCHANGED notNorm

NextNorm == legacy_normalize_apply

\* ============================================= store_productdocset_json
\* the (product, docset) pairs of the doctypes, in the order of
\* ((dt, ds) for dt in doctypes for ds in dt.docset)
task_stream == <<"p1", "p2">>
Pairs == {task_stream[i] : i \in 1..Len(task_stream)}

\* the texts a product node of the stitched tree may carry
XmlTexts == {<<"a">>, <<"a", "&", " ", "a">>}

\* the <category> children of a product node
categories == <<"cat1", "cat2">>

\* a manifest file that does not exist
NoFileYet == [written |-> FALSE, descriptions |-> <<>>, titles |-> <<>>,
              ranks |-> <<>>, documents |-> <<>>]
NoManifest == [p \in Pairs |-> NoFileYet]

\* collect_files_flat: the DC-* entries with product and docset in their path
collect_files(pair) == {f \in Artifacts : art_pair[f] = pair}

\* collect_files_flat: if files: yield dt, docset, files
yields_more_than_one(files) == Cardinality(files) > 1
yields(files) == files # {}

\* the loop over files: directories are skipped, a file that is empty or
\* fails json.load or Document.model_validate is skipped, the others appended
documents_until_error(files) ==
    LET all == SeqOfSet(files)
        bad == {i \in 1..Len(all) : art_kind[all[i]] \in {"badjson", "baddoc"}}
        stop == IF bad = {} THEN Len(all) + 1
                ELSE CHOOSE i \in bad : \A j \in bad : i <= j
    IN  SelectSeq(SubSeq(all, 1, stop - 1), LAMBDA f : art_kind[f] = "valid")
documents(files) ==
    SelectSeq(SeqOfSet(files), LAMBDA f : art_kind[f] = "valid")

\* Category.from_xml_node: each category takes the next rank of the counter
category_ranks(counter) == [i \in 1..Len(categories) |-> counter + i]

\* Category.reset_rank()
reset_rank == 0

AggIdle ==
    /\ art_pair = [f \in Artifacts |-> "other"]
    /\ art_kind = [f \in Artifacts |-> "valid"]
    /\ xml_text = <<>>
    /\ agg_pc = "idle"
    /\ agg_idx = 0
    /\ agg_hist = <<>>
    /\ rank = reset_rank
    /\ manifest_file = NoManifest
    /\ manifest_prev = NoManifest

InitAgg ==
    /\ art_pair \in [Artifacts -> Pairs \cup {"other"}]
    /\ art_kind \in [Artifacts -> {"valid", "empty", "badjson", "baddoc", "dir"}]
    /\ xml_text \in XmlTexts
    /\ agg_pc = "idle"
    /\ agg_idx = 0
    /\ agg_hist = <<>>
    /\ rank = reset_rank
    /\ manifest_file = NoManifest
    /\ manifest_prev = NoManifest

\* store_productdocset_json is called
store_productdocset_json ==
    /\ agg_pc = "idle"
    /\ Len(agg_hist) < MaxCalls
    /\ agg_pc' = "loop"
    /\ agg_idx' = 1
    /\ manifest_prev' = manifest_file
    /\ UNCHANGED <<art_pair, art_kind, xml_text, agg_hist, rank, manifest_file>>
    /\ UNCHANGED notAgg

\* one turn of `for doctype, docset, files in collect_files_flat(...)`: a pair
\* without files is passed over; otherwise descriptions and categories are
\* built from the product node, the documents are loaded, the manifest is
\* written (mkdir, open and json.dump may raise OSError) and the rank counter
\* is reset
store_productdocset_json_pair ==
    /\ agg_pc = "loop"
    /\ agg_idx <= Len(task_stream)
    /\ LET pair == task_stream[agg_idx]
           files == collect_files(pair)
       IN  IF ~yields(files)
           THEN /\ agg_idx' = agg_idx + 1
                /\ UNCHANGED <<agg_pc, agg_hist, rank, manifest_file>>
           ELSE \E write_ok \in BOOLEAN :
                  IF write_ok
                  THEN /\ manifest_file' =
                            [manifest_file EXCEPT ![pair] =
                               [written |-> TRUE,
                                descriptions |-> normalize_description(xml_text),
                                titles |-> normalize_title(xml_text),
                                ranks |-> category_ranks(rank),
                                documents |-> documents(files)]]
                       /\ rank' = reset_rank
                       /\ agg_idx' = agg_idx + 1
                       /\ UNCHANGED <<agg_pc, agg_hist>>
                  ELSE /\ rank' = rank + Len(categories)
                       /\ agg_pc' = "idle"
                       /\ agg_hist' = Append(agg_hist, "raised")
                       /\ UNCHANGED <<agg_idx, manifest_file>>
    /\ UNCHANGED <<art_pair, art_kind, xml_text, manifest_prev>>
    /\ UNCHANGED notAgg

\* the stream is exhausted: store_productdocset_json returns
store_productdocset_json_return ==
    /\ agg_pc = "loop"
    /\ agg_idx > Len(task_stream)
    /\ agg_pc' = "idle"
    /\ agg_hist' = Append(agg_hist, "returned")
    /\ UNCHANGED <<art_pair, art_kind, xml_text, agg_idx, rank, manifest_file,
                   manifest_prev>>
    /\ UNCHANGED notAgg

NextAgg ==
    \/ store_productdocset_json
    \/ store_productdocset_json_pair
    \/ store_productdocset_json_return

\* ================================================== process_check_files
Remotes == {"R1", "R2"}
DCFiles == {"DC-a", "DC-b"}
\* a deliverable element: the text of its dc and branch children, the remote
\* of the git element of its docset ("None" where the node is absent), and
\* the doctype (product/version/lang) it belongs to
DeliverableNodes ==
    [dc : DCFiles \cup {"None"}, branch : {"dev", "None"},
     remote : Remotes \cup {"None"}, doctype : Doctypes]

\* groups.setdefault(key, []).append(dcfile) on a dict kept in insertion order
setdefault_append_new(groups, key, dcfile) ==
    Append(groups, [key |-> key, dc_files |-> <<dcfile>>])
setdefault_append(groups, key, dcfile) ==
    IF \E i \in 1..Len(groups) : groups[i].key = key
    THEN [i \in 1..Len(groups) |->
             IF groups[i].key = key
             THEN [groups[i] EXCEPT !.dc_files = Append(@, dcfile)]
             ELSE groups[i]]
    ELSE Append(groups, [key |-> key, dc_files |-> <<dcfile>>])

\* _group_by_repo(deliverables): (repo, branch) -> list of DC files; the branch
\* defaults to "main", a deliverable without remote or dc is left out
RECURSIVE group_by_repo_into(_, _)
group_by_repo_into(groups, deliverables) ==
    IF deliverables = <<>> THEN groups
    ELSE LET d == Head(deliverables)
             dcfile == d.dc
             branch == IF d.branch # "None" THEN d.branch ELSE "main"
             repo == d.remote
         IN  group_by_repo_into(
                 IF repo # "None" /\ dcfile # "None"
                 THEN setdefault_append(groups, <<repo, branch>>, dcfile)
                 ELSE groups,
                 Tail(deliverables))

group_by_repo(deliverables) == group_by_repo_into(<<>>, deliverables)

\* the methods class ManagedGitRepo defines
ManagedGitRepo_methods == {"clone_bare", "create_worktree"}

\* [dc for dc in dc_files if dc not in available_files], as strings
not_available(dc_files, available_files) ==
    SelectSeq(dc_files, LAMBDA dc : dc \notin available_files)

CheckIdle ==
    /\ xml_files = FALSE
    /\ chk_deliverables = <<>>
    /\ doctype_filter = "None"
    /\ chk_pc = "idle"
    /\ chk_groups = <<>>
    /\ chk_idx = 0
    /\ missing_files = <<>>
    /\ chk_log = <<>>

InitCheck ==
    /\ xml_files \in BOOLEAN
    /\ chk_deliverables \in UNION {[1..n -> DeliverableNodes] : n \in 0..NumEntries}
    /\ (~xml_files => chk_deliverables = <<>>)
    /\ doctype_filter \in {"None"} \cup Doctypes
    /\ chk_pc = "start"
    /\ chk_groups = <<>>
    /\ chk_idx = 0
    /\ missing_files = <<>>
    /\ chk_log = <<>>

\* process_check_files up to its loop: the early returns and the grouping;
\* doctype_filter is logged
process_check_files ==
    /\ chk_pc = "start"
    /\ IF ~xml_files \/ chk_deliverables = <<>>
       THEN /\ chk_pc' = "returned"
            /\ UNCHANGED <<chk_groups, chk_idx>>
       ELSE LET groups == group_by_repo(chk_deliverables)
            IN  /\ chk_groups' = groups
                /\ chk_idx' = 1
                /\ chk_pc' = IF groups = <<>> THEN "returned" ELSE "loop"
    /\ UNCHANGED <<xml_files, chk_deliverables, doctype_filter, missing_files, chk_log>>
    /\ UNCHANGED notCheck

\* one turn of the loop over groups.items(), and the return after the last
process_check_files_group ==
    /\ chk_pc = "loop"
    /\ chk_idx <= Len(chk_groups)
    /\ LET g == chk_groups[chk_idx]
           after == IF chk_idx = Len(chk_groups) THEN "returned" ELSE "loop"
       IN  \E cloned \in BOOLEAN :
             IF ~cloned
             THEN /\ missing_files' = missing_files \o g.dc_files
                  /\ chk_log' = Append(chk_log,
                        [key |-> g.key, dc_files |-> g.dc_files, cloned |-> FALSE,
                         listed |-> FALSE, available_files |-> {},
                         reported |-> g.dc_files])
                  /\ chk_idx' = chk_idx + 1
                  /\ chk_pc' = after
             ELSE IF "ls_tree" \in ManagedGitRepo_methods
             THEN \E available_files \in SUBSET DCFiles :
                  /\ missing_files' =
                        missing_files \o not_available(g.dc_files, available_files)
                  /\ chk_log' = Append(chk_log,
                        [key |-> g.key, dc_files |-> g.dc_files, cloned |-> TRUE,
                         listed |-> TRUE, available_files |-> available_files,
                         reported |-> not_available(g.dc_files, available_files)])
                  /\ chk_idx' = chk_idx + 1
                  /\ chk_pc' = after
             ELSE \* AttributeError leaves process_check_files
                  /\ chk_log' = Append(chk_log,
                        [key |-> g.key, dc_files |-> g.dc_files, cloned |-> TRUE,
                         listed |-> FALSE, available_files |-> {},
                         reported |-> <<>>])
                  /\ chk_pc' = "raised"
                  /\ UNCHANGED <<missing_files, chk_idx>>
    /\ UNCHANGED <<xml_files, chk_deliverables, doctype_filter, chk_groups>>
    /\ UNCHANGED notCheck

NextCheck ==
    \/ process_check_files
    \/ process_check_files_group

\* ======================================== the validate run (cmd_validate)
ProductIds == {"sles", "sled"}
\* the checks in registry.registry
registry == <<"check1", "check2">>
\* what a check does when called on the tree
CheckOutcomes == {"success", "failure", "raises"}
NoResult == -1

\* run_python_checks(tree): every registered check is run; a check that
\* raises is recorded as a failed CheckResult
run_python_checks_until_failure(outcomes) ==
    LET stop == IF \E i \in 1..Len(registry) : outcomes[i] # "success"
                THEN CHOOSE i \in 1..Len(registry) :
                         /\ outcomes[i] # "success"
                         /\ \A j \in 1..(i - 1) : outcomes[j] = "success"
                ELSE Len(registry)
    IN  [i \in 1..stop |->
            [name |-> registry[i], success |-> outcomes[i] = "success"]]
run_python_checks(outcomes) ==
    [i \in 1..Len(registry) |->
        [name |-> registry[i], success |-> outcomes[i] = "success"]]

\* all(result.success for _, result in check_results)
all_success(check_results) ==
    \A i \in 1..Len(check_results) : check_results[i].success

\* create_stitchfile(files): raises ValueError when two of the files define
\* the same product id
create_stitchfile_conflict(files) ==
    \E i, j \in 1..Len(files) : i # j /\ xmlfiles[files[i]] = xmlfiles[files[j]]

\* [xmlfile for xmlfile, result in zip(xmlfiles, results) if result == 0]
successful_files_paths_all(results) == [i \in 1..Len(results) |-> i]
successful_files_paths(results) ==
    SelectSeq([i \in 1..Len(results) |-> i], LAMBDA i : results[i] = 0)

\* final_success = (failed_files == 0) and stitch_success
final_success_without_stitch(failed_files, stitch_success) == failed_files = 0
final_success(failed_files, stitch_success) == failed_files = 0 /\ stitch_success

NewFile ==
    [pc |-> "created", stages |-> <<>>, rng |-> "none", parse |-> "none",
     check_results |-> <<>>, result |-> NoResult]
StitchNotCalled == [called |-> FALSE, files |-> <<>>, raised |-> FALSE]

ValIdle ==
    /\ val_config = "ok"
    /\ xmlfiles = <<>>
    /\ val_pc = "idle"
    /\ val_file = <<>>
    /\ val_stitch = StitchNotCalled
    /\ val_result = NoResult

InitVal ==
    /\ val_config \in {"ok", "None", "paths"}
    /\ xmlfiles \in UNION {[1..n -> ProductIds] : n \in 0..NumFiles}
    /\ val_pc = "start"
    /\ val_file = <<>>
    /\ val_stitch = StitchNotCalled
    /\ val_result = NoResult

\* process() up to the gather: the configuration checks, the early return
\* with no files, one process_file coroutine per file
process_validate ==
    /\ val_pc = "start"
    /\ IF val_config # "ok"
       THEN /\ val_pc' = "raised"
            /\ UNCHANGED <<val_file, val_result>>
       ELSE IF xmlfiles = <<>>
       THEN /\ val_pc' = "returned"
            /\ val_result' = 0
            /\ UNCHANGED val_file
       ELSE /\ val_pc' = "gather"
            /\ val_file' = [f \in 1..Len(xmlfiles) |-> NewFile]
            /\ UNCHANGED val_result
    /\ UNCHANGED <<val_config, xmlfiles, val_stitch>>
    /\ UNCHANGED notVal

\* process_file(f): RNG validation
process_file_rng(f) ==
    /\ val_pc = "gather"
    /\ val_file[f].pc = "created"
    /\ \E rng_success \in BOOLEAN :
         val_file' = [val_file EXCEPT ![f] =
            IF rng_success
            THEN [@ EXCEPT !.pc = "parse", !.stages = Append(@, "rng"), !.rng = "ok"]
            ELSE [@ EXCEPT !.pc = "done", !.stages = Append(@, "rng"),
                           !.rng = "failed", !.result = 10]]
    /\ UNCHANGED <<val_config, xmlfiles, val_pc, val_stitch, val_result>>
    /\ UNCHANGED notVal

\* process_file(f): etree.parse in a worker thread
process_file_parse(f) ==
    /\ val_pc = "gather"
    /\ val_file[f].pc = "parse"
    /\ \E parsed \in {"tree", "XMLSyntaxError", "Exception"} :
         val_file' = [val_file EXCEPT ![f] =
            [@ EXCEPT !.pc = IF parsed = "tree" THEN "checks" ELSE "done",
                      !.stages = Append(@, "parse"),
                      !.parse = parsed,
                      !.result = IF parsed = "tree" THEN @
                                 ELSE IF parsed = "XMLSyntaxError" THEN 20
                                 ELSE 200]]
    /\ UNCHANGED <<val_config, xmlfiles, val_pc, val_stitch, val_result>>
    /\ UNCHANGED notVal

\* process_file(f): the Python checks and the exit code
process_file_checks(f) ==
    /\ val_pc = "gather"
    /\ val_file[f].pc = "checks"
    /\ \E outcomes \in [1..Len(registry) -> CheckOutcomes] :
         LET check_results == run_python_checks(outcomes)
         IN  val_file' = [val_file EXCEPT ![f] =
                [@ EXCEPT !.pc = "done",
                          !.stages = Append(@, "checks"),
                          !.check_results = check_results,
                          !.result = IF all_success(check_results) THEN 0 ELSE 1]]
    /\ UNCHANGED <<val_config, xmlfiles, val_pc, val_stitch, val_result>>
    /\ UNCHANGED notVal

\* process() after the gather: the stitch validation of the files that
\* passed, the summary and the exit code
process_validate_finish ==
    /\ val_pc = "gather"
    /\ \A f \in 1..Len(xmlfiles) : val_file[f].pc = "done"
    /\ LET results == [f \in 1..Len(xmlfiles) |-> val_file[f].result]
           files == successful_files_paths(results)
           stitch_success == files = <<>> \/ ~create_stitchfile_conflict(files)
           successful_files == Cardinality({f \in 1..Len(results) : results[f] = 0})
           failed_files == Len(xmlfiles) - successful_files
       IN  /\ val_stitch' = IF files # <<>>
                            THEN [called |-> TRUE, files |-> files,
                                  raised |-> ~stitch_success]
                            ELSE StitchNotCalled
           /\ val_result' = IF final_success(failed_files, stitch_success) THEN 0 ELSE 1
    /\ val_pc' = "returned"
    /\ UNCHANGED <<val_config, xmlfiles, val_file>>
    /\ UNCHANGED notVal

NextVal ==
    \/ process_validate
    \/ \E f \in 1..Len(xmlfiles) : process_file_rng(f)
    \/ \E f \in 1..Len(xmlfiles) : process_file_parse(f)
    \/ \E f \in 1..Len(xmlfiles) : process_file_checks(f)
    \/ process_validate_finish

\* ================== process_deliverable: the patch of the JSON artifact
\* "absent" stands for a key the dict does not have, "" for an empty or
\* null value
Absent == "absent"
\* the first document of the artifact the build wrote
Documents ==
    [dcfile : {Absent, "DC-old"},
     html : {Absent, "old.html"},
     pdf : {Absent, "old.pdf"},
     singlehtml : {Absent, "old-single"},
     lang : {Absent, "", "de-de"},
     title : {"t1", "t2"}]
\* deliverable.format: whether pdf and single-html are requested, or the
\* key is missing
Formats == [pdf : {"True", "False", Absent}, singlehtml : {"True", "False", Absent}]
\* fmt.get(key): truthy only for a format that is requested
fmt_get(fmt, key) == fmt[key] = "True"

\* the assignments before the test of the lang field
patch_formats(doc, fmt) ==
    [doc EXCEPT !.dcfile = "DC-new",
                !.html = "new.html",
                !.pdf = IF fmt_get(fmt, "pdf") THEN "new.pdf" ELSE @,
                !.singlehtml = IF fmt_get(fmt, "singlehtml") THEN "new-single" ELSE @]

PatchIdle ==
    /\ pt_format = [pdf |-> "False", singlehtml |-> "False"]
    /\ pt_doc = [dcfile |-> Absent, html |-> Absent, pdf |-> Absent,
                 singlehtml |-> Absent, lang |-> Absent, title |-> "t1"]
    /\ pt_old = pt_doc
    /\ pt_pc = "idle"
    /\ pt_result = "none"

InitPatch ==
    /\ pt_format \in Formats
    /\ pt_doc \in Documents
    /\ pt_old = pt_doc
    /\ pt_pc = "built"
    /\ pt_result = "none"

\* with edit_json(outputjson) as jsonconfig: ... return True; reading the
\* lang of a document that has no such key raises KeyError, the caller's
\* except returns False; whether edit_json then still writes the dict back
\* is its own matter
process_deliverable_patch ==
    /\ pt_pc = "built"
    /\ LET patched == patch_formats(pt_doc, pt_format)
       IN  IF patched.lang = Absent
           THEN /\ pt_result' = "False"
                /\ \E written \in BOOLEAN :
                     pt_doc' = IF written THEN patched ELSE pt_doc
           ELSE /\ pt_result' = "True"
                /\ pt_doc' = IF patched.lang = ""
                             THEN [patched EXCEPT !.lang = "en-us"]
                             ELSE patched
    /\ pt_pc' = "done"
    /\ UNCHANGED <<pt_format, pt_old>>
    /\ UNCHANGED notPatch

NextPatch == process_deliverable_patch

\* ============================================================ LifecycleFlag
\* the members with a bit of their own; unknown is the value 0, the empty set
FlagMembers == {"supported", "beta", "hidden", "unsupported"}
MemberNames == FlagMembers \cup {"unknown"}
\* a lifecycle string is a sequence of tokens: member names, a word that is
\* no member, the separators and the blank
LifeAlphabet == MemberNames \cup {"bogus", "|", ",", " "}
LifeStrings == UNION {[1..n -> LifeAlphabet] : n \in 0..MaxTokens}
\* cls.__members__[name] as the set of bits of the member
member_value(name) == IF name = "unknown" THEN {} ELSE {name}

\* _SEPARATOR.split(value): the pieces between the separators | and ,
RECURSIVE separator_split(_, _)
separator_split(value, piece) ==
    IF value = <<>> THEN <<piece>>
    ELSE IF Head(value) \in {"|", ","}
    THEN <<piece>> \o separator_split(Tail(value), <<>>)
    ELSE separator_split(Tail(value), Append(piece, Head(value)))

\* v.strip()
RECURSIVE strip(_)
strip(v) ==
    IF v = <<>> THEN v
    ELSE IF Head(v) = " " THEN strip(Tail(v))
    ELSE IF v[Len(v)] = " " THEN strip(SubSeq(v, 1, Len(v) - 1))
    ELSE v

\* from_str(value): the stripped, non-empty pieces are looked up by name and
\* or-ed together; a piece that is no member name raises ValueError
from_str_parts(value) ==
    LET pieces == separator_split(value, <<>>)
        stripped == [i \in 1..Len(pieces) |-> strip(pieces[i])]
    IN  SelectSeq(stripped, LAMBDA v : v # <<>>)
from_str_raises(value) ==
    \E i \in 1..Len(from_str_parts(value)) :
        LET part_name == from_str_parts(value)[i]
        IN  ~(Len(part_name) = 1 /\ part_name[1] \in MemberNames)
from_str(value) ==
    UNION {member_value(from_str_parts(value)[i][1]) :
           i \in 1..Len(from_str_parts(value))}

\* (self & item_flag) == item_flag
has_flags(self, item_flag) == (self \cap item_flag) = item_flag

LifeOperands ==
    [kind : {"str"}, value : LifeStrings, flag : {{}}]
    \cup [kind : {"flag"}, value : {<<>>}, flag : SUBSET FlagMembers]
    \cup [kind : {"other"}, value : {<<>>}, flag : {{}}]

LifeIdle ==
    /\ lf_self = {}
    /\ lf_other = [kind |-> "other", value |-> <<>>, flag |-> {}]
    /\ lf_pc = "idle"
    /\ lf_result = "none"

InitLife ==
    /\ lf_self \in SUBSET FlagMembers
    /\ lf_other \in LifeOperands
    /\ lf_pc = "start"
    /\ lf_result = "none"

\* LifecycleFlag.__contains__(self, other)
contains ==
    /\ lf_pc = "start"
    /\ lf_result' =
         IF lf_other.kind = "str"
         THEN IF from_str_raises(lf_other.value) THEN "ValueError"
              ELSE IF has_flags(lf_self, from_str(lf_other.value)) THEN "True"
              ELSE "False"
         ELSE IF lf_other.kind = "flag"
         THEN IF has_flags(lf_self, lf_other.flag) THEN "True" ELSE "False"
         ELSE "False"
    /\ lf_pc' = "done"
    /\ UNCHANGED <<lf_self, lf_other>>
    /\ UNCHANGED notLife

NextLife == contains

\* the lock is not used by the functions modelled in the metadata run
LockIdle ==
    /\ lpc = [p \in Procs |-> "idle"]
    /\ lock_acquired = [p \in Procs |-> FALSE]
    /\ lock_file = [exists |-> FALSE, creator |-> 0, content |-> 0]
    /\ lock_error = [p \in Procs |-> FALSE]
    /\ lock_call = [p \in Procs |-> "none"]

Init == InitRun /\ LockIdle /\ AggIdle /\ NormIdle /\ CheckIdle /\ ValIdle /\ PatchIdle /\ LifeIdle
Next == NextRun
Spec == Init /\ [][Next]_vars
SpecShutdown == Init /\ [][NextShutdown]_vars

\* ======================================================== PidFileLock
\* Process p has pid p.  The content of the lock file is the pid written in
\* it; NoPid is a content that int() rejects (the file just created, still
\* empty); DeadPid is the pid of a process that is not running.
NoPid == 0
DeadPid == NumProcs + 1
NoFile == [exists |-> FALSE, creator |-> 0, content |-> NoPid]

\* PidFileLock._is_pid_running: os.kill(pid, 0) finds the process
is_pid_running_inverted(pid) == pid > 0 /\ pid \notin Procs
is_pid_running(pid) == pid > 0 /\ pid \in Procs

\* the run has not started while the processes contend for the lock
RunIdle ==
    /\ InitRun
    /\ ~exitfirst
    /\ ~skip_repo_update
    /\ dtOf = [d \in Deliverables |-> "dt1"]
    /\ urlOf = [d \in Deliverables |-> "urlA"]
    /\ mirror = [u \in Urls |-> "absent"]

InitLock ==
    /\ lpc = [p \in Procs |-> "idle"]
    /\ lock_acquired = [p \in Procs |-> FALSE]
    /\ lock_error = [p \in Procs |-> FALSE]
    /\ lock_call = [p \in Procs |-> "none"]
    \* no lock file, or one left behind by a process that is gone
    /\ lock_file \in {NoFile,
                      [exists |-> TRUE, creator |-> 0, content |-> DeadPid],
                      [exists |-> TRUE, creator |-> 0, content |-> NoPid]}

\* acquire() is called
acquire(p) ==
    /\ lpc[p] = "idle"
    /\ lpc' = [lpc EXCEPT ![p] = "open"]
    /\ lock_error' = [lock_error EXCEPT ![p] = FALSE]
    /\ lock_call' = [lock_call EXCEPT ![p] = "acquire"]
    /\ UNCHANGED <<lock_acquired, lock_file>>
    /\ UNCHANGED notLock

\* Step 1: os.open(lock_path, O_WRONLY | O_CREAT | O_EXCL)
acquire_open(p) ==
    /\ lpc[p] = "open"
    /\ IF ~lock_file.exists
       THEN /\ lock_file' = [exists |-> TRUE, creator |-> p, content |-> NoPid]
            /\ lpc' = [lpc EXCEPT ![p] = "write"]
       ELSE /\ lock_file' = lock_file
            /\ lpc' = [lpc EXCEPT ![p] = "exists"]
    /\ UNCHANGED <<lock_acquired, lock_error, lock_call>>
    /\ UNCHANGED notLock

\* f.write(pid) on the descriptor that os.open returned, close, and the flag;
\* the write reaches lock_path only if the file created is still linked there
acquire_write(p) ==
    /\ lpc[p] = "write"
    /\ IF lock_file.exists /\ lock_file.creator = p
       THEN lock_file' = [lock_file EXCEPT !.content = p]
       ELSE lock_file' = lock_file
    /\ lock_acquired' = [lock_acquired EXCEPT ![p] = TRUE]
    /\ lpc' = [lpc EXCEPT ![p] = "idle"]
    /\ UNCHANGED <<lock_error, lock_call>>
    /\ UNCHANGED notLock

\* Step 2: if not self.lock_path.exists(): continue
acquire_exists(p) ==
    /\ lpc[p] = "exists"
    /\ IF lock_file.exists
       THEN lpc' = [lpc EXCEPT ![p] = "read"]
       ELSE lpc' = [lpc EXCEPT ![p] = "open"]
    /\ UNCHANGED <<lock_acquired, lock_file, lock_error, lock_call>>
    /\ UNCHANGED notLock

\* open("r"), read, int(pid_str), _is_pid_running(pid)
acquire_read(p) ==
    /\ lpc[p] = "read"
    /\ IF ~lock_file.exists \/ lock_file.content = NoPid
       THEN \* FileNotFoundError or ValueError
            /\ lpc' = [lpc EXCEPT ![p] = "unlink_invalid"]
            /\ lock_error' = lock_error
            /\ lock_call' = IF lock_file.exists
                            THEN [lock_call EXCEPT ![p] = "acquire_stale"]
                            ELSE lock_call
       ELSE IF is_pid_running(lock_file.content)
       THEN \* RuntimeError: docbuild instance already running
            /\ lpc' = [lpc EXCEPT ![p] = "idle"]
            /\ lock_error' = [lock_error EXCEPT ![p] = TRUE]
            /\ lock_call' = lock_call
       ELSE /\ lpc' = [lpc EXCEPT ![p] = "unlink_stale"]
            /\ lock_error' = lock_error
            /\ lock_call' = [lock_call EXCEPT ![p] = "acquire_stale"]
    /\ UNCHANGED <<lock_acquired, lock_file>>
    /\ UNCHANGED notLock

\* stale lock: self.lock_path.unlink(); FileNotFoundError goes to the handler
acquire_unlink_stale(p) ==
    /\ lpc[p] = "unlink_stale"
    /\ IF lock_file.exists
       THEN /\ lock_file' = NoFile
            /\ lpc' = [lpc EXCEPT ![p] = "open"]
       ELSE /\ lock_file' = lock_file
            /\ lpc' = [lpc EXCEPT ![p] = "unlink_invalid"]
    /\ UNCHANGED <<lock_acquired, lock_error, lock_call>>
    /\ UNCHANGED notLock

\* Path.unlink(missing_ok=True): the path is gone afterwards
unlink_missing_ok_skipped(file) == file
unlink_missing_ok(file) == NoFile

\* except (FileNotFoundError, ValueError): self.lock_path.unlink(missing_ok=True)
acquire_unlink_invalid(p) ==
    /\ lpc[p] = "unlink_invalid"
    /\ lock_file' = unlink_missing_ok(lock_file)
    /\ lpc' = [lpc EXCEPT ![p] = "open"]
    /\ UNCHANGED <<lock_acquired, lock_error, lock_call>>
    /\ UNCHANGED notLock

\* release(): if self._lock_acquired and self.lock_path.exists()
release(p) ==
    /\ lpc[p] = "idle"
    /\ lock_acquired[p]
    /\ IF lock_file.exists
       THEN lpc' = [lpc EXCEPT ![p] = "release_unlink"]
       ELSE lpc' = lpc
    /\ lock_call' = [lock_call EXCEPT ![p] = "release"]
    /\ UNCHANGED <<lock_acquired, lock_file, lock_error>>
    /\ UNCHANGED notLock

\* self.lock_path.unlink(); an OSError is logged and the flag stays
release_unlink(p) ==
    /\ lpc[p] = "release_unlink"
    /\ IF lock_file.exists
       THEN /\ lock_file' = NoFile
            /\ lock_acquired' = [lock_acquired EXCEPT ![p] = FALSE]
       ELSE UNCHANGED <<lock_file, lock_acquired>>
    /\ lpc' = [lpc EXCEPT ![p] = "idle"]
    /\ UNCHANGED <<lock_error, lock_call>>
    /\ UNCHANGED notLock

NextLock ==
    \/ \E p \in Procs : acquire(p)
    \/ \E p \in Procs : acquire_open(p)
    \/ \E p \in Procs : acquire_write(p)
    \/ \E p \in Procs : acquire_exists(p)
    \/ \E p \in Procs : acquire_read(p)
    \/ \E p \in Procs : acquire_unlink_stale(p)
    \/ \E p \in Procs : acquire_unlink_invalid(p)
    \/ \E p \in Procs : release(p)
    \/ \E p \in Procs : release_unlink(p)

\* the steps acquire() of process p takes by itself once it has been called
acquire_steps(p) ==
    \/ acquire_open(p)
    \/ acquire_write(p)
    \/ acquire_exists(p)
    \/ acquire_read(p)
    \/ acquire_unlink_stale(p)
    \/ acquire_unlink_invalid(p)

\* a docbuild process enters the lock once: __enter__ calls acquire(),
\* __exit__ calls release()
enter(p) ==
    /\ lock_call[p] = "none"
    /\ acquire(p)

NextLockOnce ==
    \/ \E p \in Procs : enter(p)
    \/ \E p \in Procs : acquire_open(p)
    \/ \E p \in Procs : acquire_write(p)
    \/ \E p \in Procs : acquire_exists(p)
    \/ \E p \in Procs : acquire_read(p)
    \/ \E p \in Procs : acquire_unlink_stale(p)
    \/ \E p \in Procs : acquire_unlink_invalid(p)
    \/ \E p \in Procs : release(p)
    \/ \E p \in Procs : release_unlink(p)

InitL == RunIdle /\ InitLock /\ AggIdle /\ NormIdle /\ CheckIdle /\ ValIdle /\ PatchIdle /\ LifeIdle
SpecLock == InitL /\ [][NextLock]_vars
\* processes that each enter the lock once and keep running: a process that
\* is inside acquire() takes its next step sooner or later
SpecLockFair ==
    InitL /\ [][NextLockOnce]_vars /\ \A p \in Procs : WF_vars(acquire_steps(p))

\* the aggregator and the normalization on their own
InitA == RunIdle /\ LockIdle /\ InitAgg /\ NormIdle /\ CheckIdle /\ ValIdle /\ PatchIdle /\ LifeIdle
SpecAgg == InitA /\ [][NextAgg]_vars
InitN == RunIdle /\ LockIdle /\ AggIdle /\ InitNorm /\ CheckIdle /\ ValIdle /\ PatchIdle /\ LifeIdle
SpecNorm == InitN /\ [][NextNorm]_vars
\* the check command on its own
InitC == RunIdle /\ LockIdle /\ AggIdle /\ NormIdle /\ InitCheck /\ ValIdle /\ PatchIdle /\ LifeIdle
SpecCheck == InitC /\ [][NextCheck]_vars
\* the validate command on its own
InitV == RunIdle /\ LockIdle /\ AggIdle /\ NormIdle /\ CheckIdle /\ InitVal /\ PatchIdle /\ LifeIdle
SpecVal == InitV /\ [][NextVal]_vars
\* the patch of one artifact on its own
InitP == RunIdle /\ LockIdle /\ AggIdle /\ NormIdle /\ CheckIdle /\ ValIdle /\ InitPatch /\ LifeIdle
SpecPatch == InitP /\ [][NextPatch]_vars
\* the membership test of LifecycleFlag on its own
InitF == RunIdle /\ LockIdle /\ AggIdle /\ NormIdle /\ CheckIdle /\ ValIdle /\ PatchIdle /\ InitLife
SpecLife == InitF /\ [][NextLife]_vars

\* ============================================================== claims
Ended(b) == dpc[b] \in {"returned", "raised"}
Failed(d) == tpc[d] = "done" /\ tres[d] # "True"
Running(d) == tpc[d] \in {"created", "worktree", "build", "aexit"}

\* the first task of the batch to finish returned False, and the as_completed
\* loop of the batch took its result
FirstFailureObserved(b) ==
    /\ exitfirst
    /\ Ended(b)
    /\ completed[b] # <<>>
    /\ tres[completed[b][1]] = "False"

\* C1: in fail-fast mode, when the first task that finished reported failure,
\* process_doctype returns the list that holds exactly that deliverable.
C1_FailFastReturnsFirstFailure ==
    \A b \in Doctypes :
        FirstFailureObserved(b) =>
            /\ dpc[b] = "returned"
            /\ failed_deliverables[b] = <<completed[b][1]>>

\* C2: in fail-fast mode, once the first failure was observed, process_doctype
\* ends only when every task of the batch has finished: none is still running.
C2_FailFastLeavesNoTaskRunning ==
    \A b \in Doctypes :
        FirstFailureObserved(b) => \A d \in Batch(b) : ~Running(d)

\* C3: in collect-all mode process_doctype returns after every task of the
\* batch has finished, and the list it returns holds exactly the deliverables
\* whose task returned False or raised.
C3_CollectAllReturnsExactlyTheFailed ==
    \A b \in Doctypes :
        (~exitfirst /\ dpc[b] = "returned") =>
            /\ \A d \in Batch(b) : tpc[d] = "done"
            /\ {failed_deliverables[b][i] :
                   i \in 1..Len(failed_deliverables[b])}
                 = {d \in Batch(b) : Failed(d)}

\* the repo slot of update_repositories that serves the URL of deliverable d
SlotOf(d) == CHOOSE s \in unique_urls(dtOf[d]) : urlOf[s] = urlOf[d]
WorktreeBegun(d) == tpc[d] \in {"worktree", "build", "aexit"} \/ workdir[d] # "none"

\* C4: when the repository update is not skipped, a deliverable begins to
\* create its worktree only after the clone_bare of its batch for its URL has
\* completed (update_repositories of the batch has returned).
C4_MirrorUpdateBeforeWorktree ==
    ~skip_repo_update =>
        \A d \in Deliverables :
            WorktreeBegun(d) =>
                /\ cpc[SlotOf(d)] \in {"True", "False"}
                /\ dpc[dtOf[d]] \notin {"scheduled", "resolving", "updating"}

\* a deliverable creates its worktree from a mirror that a clone command of
\* its own batch has just completed
C4_Witness ==
    \E d \in Deliverables :
        /\ ~skip_repo_update
        /\ tpc[d] = "worktree"
        /\ clone_attempts[dtOf[d]][urlOf[d]] = 1
        /\ cpc[SlotOf(d)] = "True"
        /\ mirror[urlOf[d]] = "ready"

C6_MutualExclusion ==
    Cardinality({p \in Procs : lock_acquired[p]}) <= 1

\* C7: no exception leaves process_deliverable: a task that has ended has
\* returned True or False.
C7_NoExceptionLeavesProcessDeliverable ==
    \A d \in Deliverables :
        tpc[d] = "done" => tres[d] \in {"True", "False"}

RmtreeFailed(d) ==
    /\ tpc[d] = "done"
    /\ texc[d] \in {"none", "Exception: edit_json"}
    /\ workdir[d] = "exists"

C9_ExitCodeAndManifest ==
    (ppc = "done" /\ presult # "StitchError") =>
        /\ manifest_written
        /\ presult \in {"0", "1"}
        /\ (\A d \in Deliverables : tpc[d] = "done" /\ tres[d] = "True")
             => presult = "0"
        /\ (\E d \in Deliverables : Failed(d)) => presult = "1"

\* C10: only a stitch error makes process() raise: when every task that
\* ended returned True or False (git, build-tool and artifact errors become
\* False), process() returns, and it returns 1 if a deliverable failed.
C10_OnlyStitchErrorRaises ==
    (ppc = "done" /\ \A d \in Deliverables : tres[d] \in {"none", "True", "False"}) =>
        /\ presult \in {"0", "1", "StitchError"}
        /\ (presult # "StitchError"
              /\ \E d \in Deliverables : tpc[d] = "done" /\ tres[d] = "False")
             => presult = "1"

\* C11: when stitching fails, process() ends with that error and nothing else
\* of the run has started: no process_doctype, no clone_bare, no git command,
\* no deliverable task, no working directory and no manifest write.
C11_StitchErrorBeforeAnythingElse ==
    presult = "StitchError" =>
        /\ ppc = "done"
        /\ \A b \in Doctypes :
             /\ dpc[b] = "none"
             /\ \A u \in Urls : clone_attempts[b][u] = 0
        /\ \A d \in Deliverables :
             /\ cpc[d] = "none"
             /\ tpc[d] = "none"
             /\ workdir[d] = "none"
        /\ ~manifest_written

\* the run has ended with the stitch error
C11_Witness ==
    /\ ppc = "done"
    /\ presult = "StitchError"
    /\ \A d \in Deliverables : tpc[d] = "none"

\* the deliverables that process_doctype of batch b returned as failed
ReturnedFailed(b) ==
    {failed_deliverables[b][i] : i \in 1..Len(failed_deliverables[b])}

\* C12: in collect-all mode, when the clone of a URL failed in the repository
\* update of a batch, every deliverable of the batch with that URL is returned
\* as failed (unless its task raised, which is the case of C7), and every
\* deliverable of the batch with another URL has been processed to the end and
\* is listed according to its own result.
C12_CloneFailureFailsItsDeliverables ==
    \A b \in Doctypes :
        (~exitfirst /\ ~skip_repo_update /\ dpc[b] = "returned") =>
            \A d \in Batch(b) :
                IF cpc[SlotOf(d)] = "False"
                THEN tres[d] \in {"True", "False"} => d \in ReturnedFailed(b)
                ELSE /\ tpc[d] = "done"
                     /\ tres[d] = "True" => d \notin ReturnedFailed(b)
                     /\ tres[d] = "False" => d \in ReturnedFailed(b)

C14_Original ==
    \A d \in Deliverables :
        (cancel_requested[d] /\ tpc[d] = "done" /\ workdir[d] # "none") =>
            /\ tres[d] = "CancelledError"
            /\ workdir[d] = "exists"

\* C14 amended: a task that was cancelled ends as cancelled, never with a
\* return value; when the cancellation was raised inside the async-with block
\* (while the task awaited worktree creation or the build), or the block had
\* ended with an error, the directory is still on disk; the directory is gone
\* only when the block had ended without exception before the cancellation was
\* delivered, during __aexit__.
C14_CancelledTaskKeepsWorkdir ==
    \A d \in Deliverables :
        (cancel_requested[d] /\ tpc[d] = "done") =>
            /\ tres[d] = "CancelledError"
            /\ texc[d] # "none" => workdir[d] = "exists"
            /\ workdir[d] = "deleted" => texc[d] = "none"

\* a task was cancelled while it awaited a subprocess inside the block: it
\* has ended as cancelled and its directory is on disk
C14_Witness ==
    \E d \in Deliverables :
        /\ cancel_requested[d]
        /\ tpc[d] = "done"
        /\ tres[d] = "CancelledError"
        /\ texc[d] = "CancelledError"
        /\ workdir[d] = "exists"

\* C15: when acquire() reads from the lock file the pid of a running process,
\* it raises RuntimeError and changes nothing: the lock flags and the lock
\* file, with that pid in it, are as before.
C15_RunningPidRaises ==
    [][\A p \in Procs :
         (lpc[p] = "read" /\ lpc'[p] # "read"
            /\ lock_file.exists /\ lock_file.content \in Procs)
         => /\ lock_error'[p]
            /\ lpc'[p] = "idle"
            /\ lock_acquired' = lock_acquired
            /\ lock_file' = lock_file]_vars

\* acquire() of a process has raised because the file names another, running
\* process; its flag is False and the file is still there
C15_Witness ==
    \E p \in Procs :
        /\ lpc[p] = "idle"
        /\ lock_call[p] = "acquire"
        /\ lock_error[p]
        /\ ~lock_acquired[p]
        /\ lock_file.exists
        /\ lock_file.content \in Procs \ {p}

\* C16: an acquire() that found a stale lock file (pid not running, or content
\* that is no integer) returns with the caller's flag True and the caller's
\* pid in the lock file.
C16_StaleLockReplaced ==
    [][\A p \in Procs :
         (lpc[p] = "write" /\ lpc'[p] = "idle" /\ lock_call[p] = "acquire_stale")
         => /\ lock_acquired'[p]
            /\ lock_file'.exists
            /\ lock_file'.content = p]_vars

\* C17: when release() returns on a lock whose flag was True, the flag is
\* False and the lock file does not exist.
C17_ReleaseClears ==
    [][\A p \in Procs :
         (lock_call'[p] = "release" /\ lpc'[p] = "idle"
            /\ (lpc[p] = "release_unlink"
                  \/ (lpc[p] = "idle" /\ lock_call[p] # "release")))
         => /\ ~lock_acquired'[p]
            /\ ~lock_file'.exists]_vars

\* store_productdocset_json has returned from its last call
AggReturned ==
    /\ agg_pc = "idle"
    /\ agg_hist # <<>>
    /\ agg_hist[Len(agg_hist)] = "returned"

\* C18 as stated: after store_productdocset_json returns, every requested
\* (product, version) pair has its manifest file.
C18_Original ==
    AggReturned => \A pair \in Pairs : manifest_file[pair].written

\* C18 amended: after store_productdocset_json returns, a pair has its
\* manifest file if and only if a DC-* entry of the cache has the product and
\* the version in its path; the manifest lists the valid documents among
\* these entries, and is written also when none of them is valid.
C18_ManifestForPairsWithArtifacts ==
    AggReturned =>
        \A pair \in Pairs :
            IF \E f \in Artifacts : art_pair[f] = pair
            THEN /\ manifest_file[pair].written
                 /\ \A f \in Artifacts :
                      (\E i \in 1..Len(manifest_file[pair].documents) :
                          manifest_file[pair].documents[i] = f)
                      <=> (art_pair[f] = pair /\ art_kind[f] = "valid")
            ELSE ~manifest_file[pair].written

\* after a return, one pair has a manifest without documents (its only
\* entries are unusable) and the other pair, without entries, has none
C18_Witness ==
    /\ AggReturned
    /\ \E pair, other \in Pairs :
         /\ manifest_file[pair].written
         /\ manifest_file[pair].documents = <<>>
         /\ ~manifest_file[other].written
         /\ \A f \in Artifacts : art_pair[f] # other

\* C19: the legacy normalization is idempotent: applied to a text it has
\* already normalized, it returns that text unchanged.
C19_NormalizationIdempotent ==
    norm_runs >= 2 => norm_text = norm_prev

\* C20: when two calls of store_productdocset_json in a row have returned,
\* with the same doctypes, tree and cache, every manifest file has after the
\* second call the content it had after the first.
C20_SecondRunSameManifests ==
    (/\ agg_pc = "idle"
     /\ Len(agg_hist) >= 2
     /\ agg_hist[Len(agg_hist)] = "returned"
     /\ agg_hist[Len(agg_hist) - 1] = "returned")
    => manifest_file = manifest_prev

\* C21: whenever store_productdocset_json is about to build the categories of
\* a pair, the rank counter of Category has its reset value, whatever was
\* aggregated before, in this call or in an earlier one.
C21_RankCounterResetWhenBuilding ==
    (/\ agg_pc = "loop"
     /\ agg_idx <= Len(task_stream)
     /\ \E f \in Artifacts : art_pair[f] = task_stream[agg_idx])
    => rank = reset_rank

\* the documents listed in the manifest of a pair
ManifestDocs(pair) ==
    {manifest_file[pair].documents[i] :
        i \in 1..Len(manifest_file[pair].documents)}

\* C22: after store_productdocset_json returns, an artifact that is empty, no
\* JSON or no valid document is not in the manifest of its pair, the manifest
\* has been written all the same, and every valid artifact of the pair is in it.
C22_BadArtifactSkipped ==
    AggReturned =>
        \A f \in Artifacts :
            (art_pair[f] \in Pairs /\ art_kind[f] \in {"empty", "badjson", "baddoc"})
            => /\ manifest_file[art_pair[f]].written
               /\ f \notin ManifestDocs(art_pair[f])
               /\ \A g \in Artifacts :
                    (art_pair[g] = art_pair[f] /\ art_kind[g] = "valid")
                    => g \in ManifestDocs(art_pair[f])

\* a pair has an artifact that is no JSON before a valid one: the manifest
\* of the pair lists the valid one alone
C22_Witness ==
    /\ AggReturned
    /\ \E f, g \in Artifacts :
         /\ f < g
         /\ art_pair[f] \in Pairs
         /\ art_pair[g] = art_pair[f]
         /\ art_kind[f] = "badjson"
         /\ art_kind[g] = "valid"
         /\ manifest_file[art_pair[f]].written
         /\ manifest_file[art_pair[f]].documents = <<g>>

\* ---- the check command
Elems(seq) == {seq[i] : i \in 1..Len(seq)}
\* the (repo, branch) key _group_by_repo files a deliverable under
KeyOf(d) == <<d.remote, IF d.branch # "None" THEN d.branch ELSE "main">>
InFilter(d) == d.doctype = doctype_filter

\* C23: for every (repository, branch) group whose mirror is accessible,
\* process_check_files reports as missing exactly the DC files of the group
\* that are not in the file listing of the branch: it does not end with an
\* error, the listing is taken, a listed file is never reported and an
\* unlisted file always is.
C23_MissingExactlyUnlisted ==
    \A i \in 1..Len(chk_log) :
        chk_log[i].cloned =>
            /\ chk_pc # "raised"
            /\ chk_log[i].listed
            /\ \A dc \in Elems(chk_log[i].dc_files) :
                   dc \in Elems(chk_log[i].reported)
                   <=> dc \notin chk_log[i].available_files

\* C24: when clone_bare returns False for a group, no branch listing is
\* requested for it, the remaining groups are still checked, and the list
\* process_check_files returns holds all DC files of the group.
C24_CloneFailureReportsGroup ==
    \A i \in 1..Len(chk_log) :
        ~chk_log[i].cloned =>
            /\ ~chk_log[i].listed
            /\ chk_pc # "raised"
            /\ chk_pc = "returned" =>
                   /\ Len(chk_log) = Len(chk_groups)
                   /\ Elems(chk_log[i].dc_files) \subseteq Elems(missing_files)

\* C30: with a doctype filter, only deliverables of that doctype are
\* verified: every group looked up and every file reported missing comes from
\* a deliverable the filter selects.
C30_FilterRestrictsCheck ==
    doctype_filter # "None" =>
        \A i \in 1..Len(chk_log) :
            /\ \E k \in 1..Len(chk_deliverables) :
                   /\ InFilter(chk_deliverables[k])
                   /\ KeyOf(chk_deliverables[k]) = chk_log[i].key
            /\ \A dc \in Elems(chk_log[i].reported) :
                   \E k \in 1..Len(chk_deliverables) :
                       /\ InFilter(chk_deliverables[k])
                       /\ KeyOf(chk_deliverables[k]) = chk_log[i].key
                       /\ chk_deliverables[k].dc = dc

\* ---- the validate run
ValFiles == 1..Len(xmlfiles)
Passed(f) == val_file[f].result = 0
\* two files that passed define the same product id
PassedConflict ==
    \E f, g \in ValFiles : f # g /\ Passed(f) /\ Passed(g) /\ xmlfiles[f] = xmlfiles[g]

C29_ProcessFileStages ==
    \A f \in 1..Len(val_file) :
        val_file[f].pc = "done" =>
            LET r == val_file[f] IN
            /\ r.rng = "failed" =>
                   r.result = 10 /\ r.stages = <<"rng">> /\ r.check_results = <<>>
            /\ (r.rng = "ok" /\ r.parse = "XMLSyntaxError") =>
                   r.result = 20 /\ r.stages = <<"rng", "parse">> /\ r.check_results = <<>>
            /\ (r.rng = "ok" /\ r.parse = "Exception") =>
                   r.result = 200 /\ r.stages = <<"rng", "parse">> /\ r.check_results = <<>>
            /\ (r.rng = "ok" /\ r.parse = "tree") =>
                   /\ r.stages = <<"rng", "parse", "checks">>
                   /\ Len(r.check_results) = Len(registry)
                   /\ \A i \in 1..Len(registry) : r.check_results[i].name = registry[i]
                   /\ r.result = IF \A i \in 1..Len(registry) : r.check_results[i].success
                                 THEN 0 ELSE 1
            /\ r.rng \in {"ok", "failed"}
C29_Witness ==
    \E f \in 1..Len(val_file) :
        /\ val_file[f].pc = "done"
        /\ val_file[f].stages = <<"rng", "parse", "checks">>
        /\ ~val_file[f].check_results[1].success
        /\ val_file[f].check_results[2].success
        /\ val_file[f].result = 1

\* ---- the patch of the JSON artifact
\* C26: after a successful build process_deliverable patches the first
\* document and returns True: dcfile and the html path are set, the pdf and
\* single-html paths are set only when that format is requested, lang is
\* filled with the deliverable's language only if it was absent or empty and
\* is otherwise kept, and every other field is unchanged.
C26_PatchOfFirstDocument ==
    pt_pc = "done" =>
        /\ pt_result = "True"
        /\ pt_doc.dcfile = "DC-new"
        /\ pt_doc.html = "new.html"
        /\ pt_doc.pdf = IF pt_format.pdf = "True" THEN "new.pdf" ELSE pt_old.pdf
        /\ pt_doc.singlehtml =
               IF pt_format.singlehtml = "True" THEN "new-single" ELSE pt_old.singlehtml
        /\ pt_doc.lang = IF pt_old.lang \in {Absent, ""} THEN "en-us" ELSE pt_old.lang
        /\ pt_doc.title = pt_old.title

\* ---- process_deliverable: build failure and missing mirror
\* C27: if the build command of a deliverable exits with a non-zero code,
\* process_deliverable returns False and the artifact is not patched: the
\* call ends with the build's error, not with a patched artifact or an error
\* of the patch.
C27_BuildFailureReturnsFalse ==
    \A d \in Deliverables :
        (/\ tpc[d] = "done"
         /\ returncode[d] # <<>>
         /\ returncode[d][1] # 0)
        => /\ tres[d] = "False"
           /\ texc[d] = "RuntimeError: DAPS"
C27_Witness ==
    \E d \in Deliverables :
        /\ tpc[d] = "done"
        /\ returncode[d] = <<1>>
        /\ tres[d] = "False"
        /\ workdir[d] = "exists"

\* C28: a process_deliverable that finds the mirror directory of its
\* repository missing returns False in that same step: no clone is started,
\* no working directory and no worktree are created, the build command is
\* not run; and a call that has ended does none of these later.
C28_MissingMirrorFailsAtOnce ==
    [][\A d \in Deliverables :
         /\ (/\ tpc[d] = "created"
             /\ tpc'[d] # "created"
             /\ mirror[urlOf[d]] = "absent")
            => /\ tpc'[d] = "done"
               /\ tres'[d] = "False"
               /\ workdir'[d] = "none"
               /\ returncode'[d] = <<>>
               /\ mirror' = mirror
               /\ clone_attempts' = clone_attempts
               /\ cpc' = cpc
         /\ tpc[d] = "done"
            => /\ tpc'[d] = "done"
               /\ workdir'[d] = workdir[d]
               /\ returncode'[d] = returncode[d]]_vars
C28_Witness ==
    \E d \in Deliverables :
        /\ tpc[d] = "done"
        /\ tres[d] = "False"
        /\ mirror[urlOf[d]] = "absent"
        /\ workdir[d] = "none"
        /\ returncode[d] = <<>>

\* C31: the stitch validation of the validate run receives only files whose
\* own validation returned 0: a file that failed RNG validation, parsing or a
\* Python check is never passed to the stitcher, and when no file passed the
\* stitcher is not called.
C31_StitchOnlyPassedFiles ==
    val_pc = "returned" =>
        /\ \A i \in 1..Len(val_stitch.files) :
               val_file[val_stitch.files[i]].result = 0
        /\ (~\E f \in ValFiles : Passed(f)) => ~val_stitch.called
        /\ ~val_stitch.called => val_stitch.files = <<>>
C31_Witness ==
    /\ val_pc = "returned"
    /\ Len(xmlfiles) = 2
    /\ val_file[1].result = 10
    /\ val_file[2].result = 0
    /\ val_stitch.called
    /\ val_stitch.files = <<2>>

\* ---- _group_by_repo
Groupable(d) == d.remote # "None" /\ d.dc # "None"
\* the DC files of the deliverables filed under key, in document order
FilesUnder(key) ==
    LET ds == SelectSeq(chk_deliverables, LAMBDA d : Groupable(d) /\ KeyOf(d) = key)
    IN  [i \in 1..Len(ds) |-> ds[i].dc]
Grouped == chk_pc # "start" /\ xml_files /\ chk_deliverables # <<>>

FlagsOf(x) == IF x.kind = "str" THEN from_str(x.value) ELSE x.flag

\* C33: for a LifecycleFlag f and a lifecycle string or flag x that names at
\* least one flag, `x in f` is True exactly when f has at least one of the
\* flags of x set.
C33_ContainsAnyFlag ==
    (/\ lf_pc = "done"
     /\ lf_other.kind \in {"str", "flag"}
     /\ lf_result \in {"True", "False"}
     /\ FlagsOf(lf_other) # {})
    => (lf_result = "True" <=> (lf_self \cap FlagsOf(lf_other)) # {})

\* ---- concurrent doctypes and the mirrors
\* the clone command of repo slot s has been started and has not ended
CloneInProgress(s) == cpc[s] \in {"git", "cloning"}

\* C34: in one metadata run no two clone commands for the same remote URL
\* are in progress at the same time.
C34_OneCloneAtATimePerUrl ==
    \A s, t \in Deliverables :
        (s # t /\ urlOf[s] = urlOf[t]) => ~(CloneInProgress(s) /\ CloneInProgress(t))

\* C35: no deliverable task creates its worktree from a mirror while a clone
\* into that mirror, started by the repository update of another doctype, is
\* in progress.
C35_NoWorktreeDuringForeignClone ==
    \A d, s \in Deliverables :
        (/\ tpc[d] = "worktree"
         /\ urlOf[s] = urlOf[d]
         /\ dtOf[s] # dtOf[d])
        => ~CloneInProgress(s)

\* ---- PidFileLock: release and termination
\* C36: a release() deletes the lock file only while the file holds the PID
\* of the releasing process, so it never removes the lock file of another
\* live process.
C36_ReleaseRemovesOwnFileOnly ==
    [][\A p \in Procs :
         (/\ lpc[p] = "release_unlink"
          /\ lpc'[p] = "idle"
          /\ lock_file.exists
          /\ ~lock_file'.exists)
         => lock_file.content = p]_vars

InAcquire(p) ==
    lpc[p] \in {"open", "write", "exists", "read", "unlink_stale", "unlink_invalid"}

C38_AggregationAfterAllTasks ==
    manifest_written =>
        \A d \in Deliverables : tpc[d] = "done" /\ tres[d] # "none"
\* the manifests are written after a run in which one task failed and one
\* succeeded
C38_Witness ==
    /\ manifest_written
    /\ \E d, e \in Deliverables :
         /\ dtOf[d] # dtOf[e]
         /\ tres[d] = "False"
         /\ tres[e] = "True"

====
